---- MODULE Spec2Model ----
(***************************************************************************)
(* A model of WalletRpcController                                          *)
(* (test/functional/test_framework/wallet_rpc_controller.py): one session  *)
(* of the controller, the wallet daemon it spawns and the HTTP connection  *)
(* between them.  The daemon is the environment: it starts listening or    *)
(* exits on its own, and it chooses the HTTP response of every request     *)
(* that reaches it.                                                        *)
(***************************************************************************)
EXTENDS Integers, Sequences, FiniteSets, TLC

\* ------------------------------------------------------------- bounds
\* account indexes a caller selects: 0..MaxAccount
MaxAccount == 1
\* facade calls that issue requests, made in one session before its release
\* (select_account issues none and is not counted)
MaxCalls == 1
\* coroutines started side by side on one controller
MaxTasks == 2
\* the length in bytes of the tagged public key the daemon reveals
KeyBytes == 33

\* ---------------------------------------------------- program constants
DEFAULT_ACCOUNT_INDEX == 0
\* port = 23034 in __aenter__: the port every controller connects to
RPC_PORT == 23034

VARIABLES
    pc,          \* position of the session: Created, Settling, Ready, ...
    daemon,      \* the spawned process: none, starting, listening, exited
    earlyExit,   \* history: the process exited while __aenter__ was sleeping
    logFile,     \* wallet_log_file: none, open, closed
    cmdFile,     \* wallet_commands_file (the transcript sink): none, open, closed
    conn,        \* http_client: none, idle, connected, stuck, closed
    accepted,    \* history: the RPC port accepted a connection of this session
    procWait,    \* process.communicate(): no, waiting, reaped
    account,     \* self.account['account']
    transcript,  \* what was written to wallet_commands_file, in order
    sent,        \* the requests delivered to the daemon, in order
    issued,      \* history: the number of _write_command calls made
    calls,       \* facade calls made so far that issued a request
    lastOp,      \* the facade operation (or __aexit__) that ran last
    lastResp,    \* the HTTP response of the last _write_command, if one arrived
    rpc,         \* how the last _write_command ended
    outcome,     \* how the last facade operation ended
    lastArgs,    \* history: the arguments the caller passed to the last operation
    sessions,    \* two controllers entered side by side, each with its own state
    portOwner,   \* the session whose daemon is bound to the RPC port (0: none)
    tasks,       \* coroutines started on the one controller, each at its position
    running,     \* the coroutine the event loop is running (0: none)
    wire,        \* requests on the connection whose response was not read yet
    overlap      \* history: a request was attempted while another was on the wire

\* the state of two sessions that run side by side
peerVars == <<sessions, portOwner>>
\* the state of the coroutines that share one controller
loopVars == <<tasks, running, wire, overlap>>

vars == <<pc, daemon, earlyExit, logFile, cmdFile, conn, accepted, procWait,
          account, transcript, sent, issued, calls, lastOp, lastResp, rpc,
          outcome, lastArgs, peerVars, loopVars>>

Accounts == 0..MaxAccount
\* two controllers, each entered with its own `async with`
Sessions == {1, 2}
Tasks == 1..MaxTasks

\* ------------------------------------------------------- JSON values
\* A positional parameter of a request.
PStr(s) == [t |-> "str", s |-> s, n |-> 0]
PNum(n) == [t |-> "num", s |-> "", n |-> n]
PBool(s) == [t |-> "bool", s |-> s, n |-> 0]
PNull == [t |-> "null", s |-> "", n |-> 0]
\* a float, by the text str() gives for it
PFloat(s) == [t |-> "float", s |-> s, n |-> 0]
PList == [t |-> "list", s |-> "", n |-> 0]
PEmptyObj == [t |-> "obj", s |-> "", n |-> 0]
\* the arguments of an operation that takes none of the arguments recorded
NoArgs == [amount |-> PNull, with_locked |-> "", utxo_states |-> <<>>]

\* self.account: {'account': n}
AccountParam(n) == [t |-> "obj", s |-> "account", n |-> n]
\* {'in_top_x_mb': 5}
FeePolicy == [t |-> "obj", s |-> "in_top_x_mb", n |-> 5]

\* A value the daemon puts under "result" (or a value a facade call returns).
VStr(s) == [t |-> "str", s |-> s, b |-> <<>>]
VNull == [t |-> "null", s |-> "", b |-> <<>>]
\* an object holding every field the facade reads; its public_key_hex is the
\* hex text whose digits are b (each digit by its value 0..15)
VObj(b) == [t |-> "obj", s |-> "full", b |-> b]
\* an object without the fields the facade reads
VEmptyObj == [t |-> "obj", s |-> "", b |-> <<>>]
VBytes(b) == [t |-> "bytes", s |-> "", b |-> b]
VEnvelope == [t |-> "envelope", s |-> "", b |-> <<>>]

\* the hex text of a key of KeyBytes bytes: a tag byte 00, then key material
TaggedKeyHex == [i \in 1..(2 * KeyBytes) |-> IF i <= 2 THEN 0 ELSE i % 16]

\* the hex texts a daemon answers with under public_key_hex: the empty text,
\* a two-byte key, a key of KeyBytes bytes, and a text with an odd number of
\* digits
RevealedKeys == {<<>>, <<0, 2, 10, 7>>, TaggedKeyHex, <<0, 2, 10>>}

ResultValues ==
    {VStr("Staking"), VStr("staking"), VNull, VEmptyObj} \cup {VObj(b) : b \in RevealedKeys}

\* ------------------------------------------------- HTTP response bodies
\* A decoded JSON document: an object with or without the keys "result" and
\* "error", or a JSON value that is no object (obj = FALSE).
Doc(isObj, hasR, r, hasE) ==
    [obj |-> isObj, hasResult |-> hasR, result |-> r, hasError |-> hasE,
     code |-> IF hasE THEN -1 ELSE 0]
NoDoc == Doc(FALSE, FALSE, VNull, FALSE)

\* The text of a body: empty, text that is no JSON, or the text of a document.
EmptyText == [empty |-> TRUE, wf |-> FALSE, doc |-> NoDoc]
GarbageText == [empty |-> FALSE, wf |-> FALSE, doc |-> NoDoc]
JsonText(d) == [empty |-> FALSE, wf |-> TRUE, doc |-> d]

Docs ==
    {Doc(TRUE, TRUE, r, FALSE) : r \in ResultValues}
    \cup {Doc(TRUE, FALSE, VNull, TRUE),      \* {"error": {...}}
          Doc(TRUE, TRUE, VNull, TRUE),       \* {"result": null, "error": {...}}
          Doc(TRUE, FALSE, VNull, FALSE),     \* {}
          NoDoc}                              \* a JSON value that is no object

Bodies == {EmptyText, GarbageText} \cup {JsonText(d) : d \in Docs}

\* The responses a daemon gives: any body with a status of the success range,
\* and, with a status outside it, a page that is no JSON, an error document
\* or a result.
FailureBodies ==
    {GarbageText, JsonText(Doc(TRUE, FALSE, VNull, TRUE)),
     JsonText(Doc(TRUE, TRUE, VStr("Staking"), FALSE))}
Responses ==
    {[status |-> 200, body |-> b] : b \in Bodies}
    \cup {[status |-> 500, body |-> b] : b \in FailureBodies}
NoResponse == [arrived |-> FALSE, status |-> 0, body |-> EmptyText]
Arrived(resp) == [arrived |-> TRUE, status |-> resp.status, body |-> resp.body]

\* HTTPResponse.read(): everything left in the stream, which is then exhausted.
ReadBody(stream) == [data |-> stream, rest |-> EmptyText]

\* json.loads(body)
\* _write_command returns the whole decoded document (val = VEnvelope)
Returned(d) == [kind |-> "return", exc |-> "", val |-> VEnvelope, doc |-> d]
Raised(e) == [kind |-> "raise", exc |-> e, val |-> VNull, doc |-> NoDoc]
NoRpc == [kind |-> "none", exc |-> "", val |-> VNull, doc |-> NoDoc]
JsonLoads(text) == IF text.wf THEN Returned(text.doc) ELSE Raised("JSONDecodeError")

\* ------------------------------------------------------- the transcript
\* What the three writes of a request leave in the file, and what the write
\* of a response body leaves: writing empty bytes leaves nothing.
ReqRecord(method, params) ==
    [k |-> "req", method |-> method, params |-> params, body |-> EmptyText]
RespRecord(text) == [k |-> "resp", method |-> "", params |-> <<>>, body |-> text]
Written(text) == IF text.empty THEN <<>> ELSE <<RespRecord(text)>>

Request(method, params) == [method |-> method, params |-> params, id |-> 1]

\* ------------------------------------------------------- _write_command
\* io: the transcript, the requests delivered, the connection; d: the state
\* of the daemon when the request is made; resp: the response the daemon
\* gives if the request reaches it.  The result is the new io, the response
\* that arrived and how the call ended.
\*
\* HTTPConnection.request() connects on demand.  A refused connect leaves the
\* connection object in its request-sent state, where every later request()
\* raises CannotSendRequest; a connection the peer dropped is closed by
\* getresponse() and reopened by the next request().
WriteCommand(io, method, params, d, resp) ==
    LET t1 == Append(io.transcript, ReqRecord(method, params))
        n1 == io.issued + 1
        first == ReadBody(resp.body)
        second == ReadBody(first.rest)
    IN  IF io.conn = "stuck"
        THEN [io |-> [io EXCEPT !.transcript = t1, !.issued = n1],
              resp |-> NoResponse, rpc |-> Raised("CannotSendRequest")]
        ELSE IF io.conn # "connected" /\ d # "listening"
        THEN [io |-> [io EXCEPT !.transcript = t1, !.issued = n1, !.conn = "stuck"],
              resp |-> NoResponse, rpc |-> Raised("ConnectionRefusedError")]
        ELSE IF d # "listening"
        THEN [io |-> [io EXCEPT !.transcript = t1, !.issued = n1, !.conn = "idle"],
              resp |-> NoResponse, rpc |-> Raised("RemoteDisconnected")]
        ELSE [io |-> [transcript |-> t1 \o Written(second.data),
                      sent |-> Append(io.sent, Request(method, params)),
                      issued |-> n1,
                      conn |-> "connected",
                      accepted |-> TRUE],
              resp |-> Arrived(resp),
              rpc |-> JsonLoads(first.data)]

IO ==
    [transcript |-> transcript, sent |-> sent, issued |-> issued, conn |-> conn,
     accepted |-> accepted]

\* The responses the daemon may give to a request made on connection state c
\* while the daemon is in state d: any response when the request reaches it,
\* and nothing to choose when it does not.
Answers(c, d) ==
    IF c # "stuck" /\ d = "listening" THEN Responses
    ELSE {[status |-> 200, body |-> EmptyText]}

\* ------------------------------------------------------ facade results
Ret(v) == [kind |-> "return", exc |-> "", val |-> v, doc |-> NoDoc]
RetEnvelope(d) == [kind |-> "return", exc |-> "", val |-> VEnvelope, doc |-> d]
Exc(e) == [kind |-> "raise", exc |-> e, val |-> VNull, doc |-> NoDoc]
NoOutcome == [kind |-> "none", exc |-> "", val |-> VNull, doc |-> NoDoc]

\* Three of the responses, for the operations whose requests are looked at:
\* a result object, an error response, and a body that is no JSON
FewResponses ==
    {[status |-> 200, body |-> JsonText(Doc(TRUE, TRUE, VObj(<<0, 2, 10, 7>>), FALSE))],
     [status |-> 200, body |-> JsonText(Doc(TRUE, FALSE, VNull, TRUE))],
     [status |-> 200, body |-> GarbageText]}
FewAnswers(c, d) == IF Answers(c, d) = Responses THEN FewResponses ELSE Answers(c, d)

\* d['result'] on what json.loads returned
GetResult(d) ==
    IF ~d.obj THEN Exc("TypeError")
    ELSE IF d.hasResult THEN Ret(d.result)
    ELSE Exc("KeyError")

\* v[f] on a result: the field's value when v is an object that has it
GetField(v, f) ==
    IF v.t # "obj" THEN Exc("TypeError")
    ELSE IF v.s = "full"
    THEN Ret(IF f = "public_key_hex" THEN [t |-> "hex", s |-> "", b |-> v.b] ELSE VStr(f))
    ELSE Exc("KeyError")

\* d['result'][f]
GetResultField(d, f) ==
    IF GetResult(d).kind = "raise" THEN GetResult(d) ELSE GetField(GetResult(d).val, f)

\* str(x) of a non-negative integer below 10, and of a parameter
Digits == <<"0", "1", "2", "3", "4", "5", "6", "7", "8", "9">>
PyStr(p) == IF p.t = "num" THEN PStr(Digits[p.n + 1]) ELSE PStr(p.s)

\* ------------------------------------------------- the facade operations
\* Every operation but select_account and new_public_key is one
\* _write_command and a step that turns what it returned into the result.
SimpleOps ==
    {"create_wallet", "open_wallet", "close_wallet", "get_best_block_height",
     "create_new_account", "new_address", "get_transaction", "send_to_address",
     "sync", "start_staking", "staking_status", "get_addresses_usage"}
FacadeOps == SimpleOps \cup {"new_public_key", "select_account"}

\* os.path.join(self.node.datadir, name), name = "wallet"
WalletFile == PStr("datadir/wallet")

Method(op) ==
    CASE op = "create_wallet" -> "wallet_create"
      [] op = "open_wallet" -> "wallet_open"
      [] op = "close_wallet" -> "wallet-close"
      [] op = "get_best_block_height" -> "wallet_best_block"
      [] op = "create_new_account" -> "account_create"
      [] op = "new_address" -> "address_new"
      [] op = "get_transaction" -> "transaction_get"
      [] op = "send_to_address" -> "address_send"
      [] op = "sync" -> "wallet_sync"
      [] op = "start_staking" -> "staking_start"
      [] op = "staking_status" -> "staking_status"
      [] op = "get_addresses_usage" -> "address_show"

\* the positional parameters, with acct = self.account
Params(op, acct) ==
    CASE op = "create_wallet" -> <<WalletFile, PBool("True")>>
      [] op = "open_wallet" -> <<WalletFile, PNull>>
      [] op = "close_wallet" -> <<>>
      [] op = "get_best_block_height" -> <<PEmptyObj>>
      [] op = "create_new_account" -> <<PNull, PEmptyObj>>
      [] op = "new_address" -> <<acct>>
      [] op = "get_transaction" -> <<acct, PStr("tx_id")>>
      [] op = "send_to_address" ->
            <<acct, PStr("address"), PyStr(PNum(1)), PList, FeePolicy>>
      [] op = "sync" -> <<>>
      [] op = "start_staking" -> <<acct>>
      [] op = "staking_status" -> <<acct>>
      [] op = "get_addresses_usage" -> <<>>

\* staking_status with the result looked up leniently (d.get('result')): a
\* reply without a result maps to "Not staking"
StakingStatusLenient(d) ==
    IF d.obj /\ d.hasResult /\ d.result = VStr("Staking") THEN Ret(VStr("Staking"))
    ELSE Ret(VStr("Not staking"))

\* staking_status: the mapping of the daemon's reply
StakingStatus(d) ==
    IF GetResult(d).kind = "raise" THEN GetResult(d)
    ELSE IF GetResult(d).val = VStr("Staking") THEN Ret(VStr("Staking"))
    ELSE Ret(VStr("Not staking"))

\* what the operation makes of the document _write_command returned
Post(op, d) ==
    CASE op \in {"create_wallet", "open_wallet", "create_new_account", "sync"} ->
            Ret(VStr("Success"))
      [] op = "send_to_address" ->
            Ret(VStr("The transaction was submitted successfully"))
      [] op = "close_wallet" -> RetEnvelope(d)
      [] op = "get_best_block_height" -> GetResultField(d, "height")
      [] op = "new_address" -> GetResultField(d, "address")
      [] op \in {"get_transaction", "get_addresses_usage"} -> GetResult(d)
      [] op = "start_staking" ->
            IF GetResult(d).kind = "raise" THEN GetResult(d)
            ELSE Ret(VStr("Staking started successfully"))
      [] op = "staking_status" -> StakingStatus(d)

\* an exception of _write_command passes through the operation unchanged
Finish(op, r) == IF r.kind = "raise" THEN Exc(r.exc) ELSE Post(op, r.doc)

\* a controller after __init__, as one of two that run side by side: port is
\* the port its connection addresses, peer the session whose daemon holds
\* the other end of its connection (0: none), received the requests the
\* daemon of this session was handed, each with the session that sent it
NewSession ==
    [pc |-> "Created", daemon |-> "none", account |-> DEFAULT_ACCOUNT_INDEX,
     calls |-> 0, port |-> 0, peer |-> 0, received |-> <<>>,
     io |-> [transcript |-> <<>>, sent |-> <<>>, issued |-> 0, conn |-> "none",
             accepted |-> FALSE]]

\* a coroutine that was not started yet
NewTask == [pos |-> "new", op |-> "", addr |-> VNull, got |-> 0, out |-> NoOutcome]

\* --------------------------------------------------------------- Init
\* the state after __init__: nothing spawned, nothing opened
Init ==
    /\ pc = "Created"
    /\ daemon = "none"
    /\ earlyExit = FALSE
    /\ logFile = "none"
    /\ cmdFile = "none"
    /\ conn = "none"
    /\ accepted = FALSE
    /\ procWait = "no"
    /\ account = DEFAULT_ACCOUNT_INDEX
    /\ transcript = <<>>
    /\ sent = <<>>
    /\ issued = 0
    /\ calls = 0
    /\ lastOp = "__init__"
    /\ lastResp = NoResponse
    /\ rpc = NoRpc
    /\ outcome = NoOutcome
    /\ lastArgs = NoArgs
    /\ sessions = [s \in Sessions |-> NewSession]
    /\ portOwner = 0
    /\ tasks = [t \in Tasks |-> NewTask]
    /\ running = 0
    /\ wire = <<>>
    /\ overlap = FALSE

\* ------------------------------------------------------------ the daemon
\* the spawned process opens its RPC port
DaemonListen ==
    /\ daemon = "starting"
    /\ daemon' = "listening"
    /\ UNCHANGED <<peerVars, loopVars,
                   pc, earlyExit, logFile, cmdFile, conn, accepted, procWait, account,
                   transcript, sent, issued, calls, lastOp, lastArgs, lastResp, rpc, outcome>>

\* the spawned process exits: on its own, or after a shutdown request
DaemonExit ==
    /\ daemon \in {"starting", "listening"}
    /\ daemon' = "exited"
    /\ earlyExit' = (earlyExit \/ pc = "Settling")
    /\ UNCHANGED <<peerVars, loopVars, pc, logFile, cmdFile, conn, accepted, procWait, account,
                   transcript, sent, issued, calls, lastOp, lastArgs, lastResp, rpc, outcome>>

\* ------------------------------------------------------------ __aenter__
\* up to the await of create_subprocess_exec: both files are created, then the
\* process is spawned, or the spawn raises because the executable is missing
EnterSpawn ==
    /\ pc = "Created"
    /\ logFile' = "open"
    /\ cmdFile' = "open"
    /\ lastOp' = "__aenter__"
    /\ lastArgs' = NoArgs
    /\ \E exeFound \in BOOLEAN :
          IF exeFound
          THEN /\ daemon' = "starting"
               /\ conn' = "idle"
               /\ pc' = "Settling"
               /\ outcome' = NoOutcome
          ELSE /\ pc' = "EnterFailed"
               /\ outcome' = Exc("FileNotFoundError")
               /\ UNCHANGED <<daemon, conn>>
    /\ UNCHANGED <<peerVars, loopVars,
                   earlyExit, accepted, procWait, account, transcript, sent, issued, calls,
                   lastResp, rpc>>

\* the sleep ends and __aenter__ returns self, whatever the process did meanwhile
EnterSettle ==
    /\ pc = "Settling"
    /\ pc' = "Ready"
    /\ outcome' = Ret(VStr("self"))
    /\ UNCHANGED <<peerVars, loopVars,
                   daemon, earlyExit, logFile, cmdFile, conn, accepted, procWait, account,
                   transcript, sent, issued, calls, lastOp, lastArgs, lastResp, rpc>>

\* --------------------------------------------------------------- facade
\* a mutant: an operation that falls back to the default account
CallOnDefaultAccount(op) ==
    /\ pc = "Ready"
    /\ calls < MaxCalls
    /\ \E resp \in Answers(conn, daemon) :
          LET r == WriteCommand(IO, Method(op), Params(op, AccountParam(account)),
                                daemon, resp)
          IN  /\ transcript' = r.io.transcript
              /\ sent' = r.io.sent
              /\ issued' = r.io.issued
              /\ conn' = r.io.conn
              /\ accepted' = r.io.accepted
              /\ lastResp' = r.resp
              /\ rpc' = r.rpc
              /\ outcome' = Finish(op, r.rpc)
    /\ calls' = calls + 1
    /\ account' = DEFAULT_ACCOUNT_INDEX
    /\ lastOp' = op
    /\ lastArgs' = NoArgs
    /\ UNCHANGED <<peerVars, loopVars, pc, daemon, earlyExit, logFile, cmdFile, procWait>>

\* an operation of SimpleOps, on the response resp
Call(op) ==
    /\ pc = "Ready"
    /\ calls < MaxCalls
    /\ \E resp \in Answers(conn, daemon) :
          LET r == WriteCommand(IO, Method(op), Params(op, AccountParam(account)),
                                daemon, resp)
          IN  /\ transcript' = r.io.transcript
              /\ sent' = r.io.sent
              /\ issued' = r.io.issued
              /\ conn' = r.io.conn
              /\ accepted' = r.io.accepted
              /\ lastResp' = r.resp
              /\ rpc' = r.rpc
              /\ outcome' = Finish(op, r.rpc)
    /\ calls' = calls + 1
    /\ lastOp' = op
    /\ lastArgs' = NoArgs
    /\ UNCHANGED <<peerVars, loopVars, pc, daemon, earlyExit, logFile, cmdFile, procWait, account>>

\* ------------------------------------- operations that take arguments
\* the amounts a caller passes: an int, a float and a decimal string
Amounts == {PNum(1), PFloat("1.5"), PStr("2")}
\* the values a caller passes as with_locked and as utxo_states
LockedFilters == {"unlocked", "locked", "LOCKED", "any"}
UtxoStates == {<<"confirmed">>, <<"inactive", "confirmed">>}

\* a Python str as its characters, for the words get_balance handles
Spell(w) ==
    CASE w = "unlocked" -> <<"u", "n", "l", "o", "c", "k", "e", "d">>
      [] w = "Unlocked" -> <<"U", "n", "l", "o", "c", "k", "e", "d">>
      [] w = "locked" -> <<"l", "o", "c", "k", "e", "d">>
      [] w = "Locked" -> <<"L", "o", "c", "k", "e", "d">>
      [] w = "LOCKED" -> <<"L", "O", "C", "K", "E", "D">>
      [] w = "any" -> <<"a", "n", "y">>
      [] w = "Any" -> <<"A", "n", "y">>
Words == {"unlocked", "Unlocked", "locked", "Locked", "LOCKED", "any", "Any"}
Word(cs) == CHOOSE w \in Words : Spell(w) = cs

LowerCase == <<"a", "c", "d", "e", "k", "l", "n", "o", "u", "y">>
UpperCase == <<"A", "C", "D", "E", "K", "L", "N", "O", "U", "Y">>
\* c.upper() and c.lower() of one character
Upper(c) ==
    IF \E i \in 1..Len(LowerCase) : LowerCase[i] = c
    THEN UpperCase[CHOOSE i \in 1..Len(LowerCase) : LowerCase[i] = c]
    ELSE c
Lower(c) ==
    IF \E i \in 1..Len(UpperCase) : UpperCase[i] = c
    THEN LowerCase[CHOOSE i \in 1..Len(UpperCase) : UpperCase[i] = c]
    ELSE c

\* a mutant: the filter passed on as the caller wrote it
AsWritten(w) == w

\* str.capitalize(): the first character upper-cased, the others lower-cased
Capitalize(w) ==
    Word([i \in 1..Len(Spell(w)) |->
             IF i = 1 THEN Upper(Spell(w)[i]) ELSE Lower(Spell(w)[i])])

ArgOps == {"send_to_address", "send_tokens_to_address", "get_balance"}

ArgMethod(op) ==
    CASE op = "send_to_address" -> "address_send"
      [] op = "send_tokens_to_address" -> "token_send"
      [] op = "get_balance" -> "account_balance"

\* the positional parameters, with acct = self.account and the caller's args
ArgParams(op, acct, args) ==
    CASE op = "send_to_address" ->
            <<acct, PStr("address"), PyStr(args.amount), PList, FeePolicy>>
      [] op = "send_tokens_to_address" ->
            <<acct, PStr("token_id"), PStr("address"), args.amount, FeePolicy>>
      [] op = "get_balance" -> <<acct, PStr(Capitalize(args.with_locked))>>

ArgPost(op, d) ==
    CASE op = "send_to_address" ->
            Ret(VStr("The transaction was submitted successfully"))
      [] op = "send_tokens_to_address" -> GetResult(d)
      [] op = "get_balance" ->
            IF GetResultField(d, "coins").kind = "raise" THEN GetResultField(d, "coins")
            ELSE Ret(VStr("Coins amount: {coins}"))

\* an operation of ArgOps called with args
CallWith(op, args) ==
    /\ pc = "Ready"
    /\ calls < MaxCalls
    /\ \E resp \in FewAnswers(conn, daemon) :
          LET r == WriteCommand(IO, ArgMethod(op),
                                ArgParams(op, AccountParam(account), args), daemon, resp)
          IN  /\ transcript' = r.io.transcript
              /\ sent' = r.io.sent
              /\ issued' = r.io.issued
              /\ conn' = r.io.conn
              /\ accepted' = r.io.accepted
              /\ lastResp' = r.resp
              /\ rpc' = r.rpc
              /\ outcome' = IF r.rpc.kind = "raise" THEN Exc(r.rpc.exc)
                            ELSE ArgPost(op, r.rpc.doc)
    /\ calls' = calls + 1
    /\ lastOp' = op
    /\ lastArgs' = args
    /\ UNCHANGED <<peerVars, loopVars, pc, daemon, earlyExit, logFile, cmdFile, procWait,
                   account>>

SendToAddress(amount) ==
    CallWith("send_to_address", [NoArgs EXCEPT !.amount = amount])

SendTokensToAddress(amount) ==
    CallWith("send_tokens_to_address", [NoArgs EXCEPT !.amount = amount])

GetBalance(with_locked, utxo_states) ==
    CallWith("get_balance",
             [NoArgs EXCEPT !.with_locked = with_locked, !.utxo_states = utxo_states])

\* bytes.fromhex(text): two digits make one byte, the first digit the high
\* half; a text with an odd number of digits raises ValueError
FromHex(digits) ==
    IF Len(digits) % 2 = 1 THEN Exc("ValueError")
    ELSE Ret(VBytes([i \in 1..(Len(digits) \div 2) |->
                        16 * digits[2 * i - 1] + digits[2 * i]]))

\* a mutant: the slice [:-1], which drops the last byte
DropLast(b) == IF Len(b) = 0 THEN <<>> ELSE SubSeq(b, 1, Len(b) - 1)

\* b[1:]: all bytes but the first; the empty sequence stays empty
DropFirst(b) == IF Len(b) = 0 THEN <<>> ELSE Tail(b)

\* bytes.fromhex(public_key)[1:]
StripTag(h) ==
    IF FromHex(h.b).kind = "raise" THEN FromHex(h.b)
    ELSE Ret(VBytes(DropFirst(FromHex(h.b).val.b)))

\* a mutant: new_public_key as a single request for the key of the account
NewPublicKeyOneCall ==
    /\ pc = "Ready"
    /\ calls < MaxCalls
    /\ \E resp \in Answers(conn, daemon) :
          LET r == WriteCommand(IO, "address_reveal_public_key",
                                <<AccountParam(account)>>, daemon, resp)
              key == IF r.rpc.kind = "raise" THEN Exc(r.rpc.exc)
                     ELSE GetResultField(r.rpc.doc, "public_key_hex")
          IN  /\ transcript' = r.io.transcript
              /\ sent' = r.io.sent
              /\ issued' = r.io.issued
              /\ conn' = r.io.conn
              /\ accepted' = r.io.accepted
              /\ lastResp' = r.resp
              /\ rpc' = r.rpc
              /\ outcome' = IF key.kind = "raise" THEN key ELSE StripTag(key.val)
    /\ calls' = calls + 1
    /\ lastOp' = "new_public_key"
    /\ lastArgs' = NoArgs
    /\ UNCHANGED <<peerVars, loopVars, pc, daemon, earlyExit, logFile, cmdFile, procWait, account>>

\* new_public_key: new_address, then address_reveal_public_key on its address
NewPublicKey ==
    /\ pc = "Ready"
    /\ calls < MaxCalls
    /\ \E resp1 \in Answers(conn, daemon) :
          LET r1 == WriteCommand(IO, Method("new_address"),
                                 Params("new_address", AccountParam(account)),
                                 daemon, resp1)
              addr == Finish("new_address", r1.rpc)
          IN  IF addr.kind = "raise"
              THEN /\ transcript' = r1.io.transcript
                   /\ sent' = r1.io.sent
                   /\ issued' = r1.io.issued
                   /\ conn' = r1.io.conn
                   /\ accepted' = r1.io.accepted
                   /\ lastResp' = r1.resp
                   /\ rpc' = r1.rpc
                   /\ outcome' = addr
              ELSE \E resp2 \in Answers(r1.io.conn, daemon) :
                      LET r2 == WriteCommand(r1.io, "address_reveal_public_key",
                                             <<AccountParam(account), PStr(addr.val.s)>>,
                                             daemon, resp2)
                          key == IF r2.rpc.kind = "raise" THEN Exc(r2.rpc.exc)
                                 ELSE GetResultField(r2.rpc.doc, "public_key_hex")
                      IN  /\ transcript' = r2.io.transcript
                          /\ sent' = r2.io.sent
                          /\ issued' = r2.io.issued
                          /\ conn' = r2.io.conn
                          /\ accepted' = r2.io.accepted
                          /\ lastResp' = r2.resp
                          /\ rpc' = r2.rpc
                          /\ outcome' = IF key.kind = "raise" THEN key
                                        ELSE StripTag(key.val)
    /\ calls' = calls + 1
    /\ lastOp' = "new_public_key"
    /\ lastArgs' = NoArgs
    /\ UNCHANGED <<peerVars, loopVars, pc, daemon, earlyExit, logFile, cmdFile, procWait, account>>

\* a mutant: select_account as a command that is written to the transcript
SelectAccountLogged(n) ==
    /\ pc = "Ready"
    /\ account' = n
    /\ transcript' = Append(transcript, ReqRecord("account_select", <<PNum(n)>>))
    /\ issued' = issued + 1
    /\ outcome' = Ret(VStr("Success"))
    /\ lastOp' = "select_account"
    /\ lastArgs' = NoArgs
    /\ UNCHANGED <<peerVars, loopVars,
                   pc, daemon, earlyExit, logFile, cmdFile, conn, accepted, procWait,
                   sent, calls, lastResp, rpc>>

\* select_account: the account dictionary is replaced, nothing is sent
SelectAccount(n) ==
    /\ pc = "Ready"
    /\ account' = n
    /\ outcome' = Ret(VStr("Success"))
    /\ lastOp' = "select_account"
    /\ lastArgs' = NoArgs
    /\ UNCHANGED <<peerVars, loopVars,
                   pc, daemon, earlyExit, logFile, cmdFile, conn, accepted, procWait,
                   transcript, sent, issued, calls, lastResp, rpc>>

\* ------------------------------------------------------------- __aexit__
\* up to the await of process.communicate(): the shutdown command; when it
\* raises, the exception leaves __aexit__ and the rest of it does not run
ExitShutdown ==
    /\ pc = "Ready"
    /\ \E resp \in Answers(conn, daemon) :
          LET r == WriteCommand(IO, "shutdown", <<>>, daemon, resp)
          IN  /\ transcript' = r.io.transcript
              /\ sent' = r.io.sent
              /\ issued' = r.io.issued
              /\ conn' = r.io.conn
              /\ accepted' = r.io.accepted
              /\ lastResp' = r.resp
              /\ rpc' = r.rpc
              /\ IF r.rpc.kind = "raise"
                 THEN /\ pc' = "ExitFailed"
                      /\ outcome' = Exc(r.rpc.exc)
                      /\ procWait' = procWait
                 ELSE /\ pc' = "AwaitExit"
                      /\ outcome' = NoOutcome
                      /\ procWait' = "waiting"
    /\ lastOp' = "__aexit__"
    /\ lastArgs' = NoArgs
    /\ UNCHANGED <<peerVars, loopVars, daemon, earlyExit, logFile, cmdFile, account, calls>>

\* a mutant: the files and the connection are closed while the wait for the
\* process is still pending
ExitFinishEarly ==
    /\ pc = "AwaitExit"
    /\ conn' = "closed"
    /\ logFile' = "closed"
    /\ cmdFile' = "closed"
    /\ pc' = "Terminated"
    /\ outcome' = Ret(VNull)
    /\ UNCHANGED <<peerVars, loopVars,
                   daemon, earlyExit, accepted, procWait, account, transcript, sent,
                   issued, calls, lastOp, lastArgs, lastResp, rpc>>

\* communicate() returns once the process has exited; then the connection and
\* the two files are closed
ExitFinish ==
    /\ pc = "AwaitExit"
    /\ daemon = "exited"
    /\ procWait' = "reaped"
    /\ conn' = "closed"
    /\ logFile' = "closed"
    /\ cmdFile' = "closed"
    /\ pc' = "Terminated"
    /\ outcome' = Ret(VNull)
    /\ UNCHANGED <<peerVars, loopVars,
                   daemon, earlyExit, accepted, account, transcript, sent, issued, calls,
                   lastOp, lastArgs, lastResp, rpc>>

\* the steps of the controller, and those of the daemon
ControllerNext ==
    \/ EnterSpawn
    \/ EnterSettle
    \/ \E op \in SimpleOps : Call(op)
    \/ NewPublicKey
    \/ \E n \in Accounts : SelectAccount(n)
    \/ ExitShutdown
    \/ ExitFinish

DaemonNext == DaemonListen \/ DaemonExit

Next == ControllerNext \/ DaemonNext

Spec == Init /\ [][Next]_vars

\* ------------------------------------------- two sessions side by side
\* the variables of the one session of Spec
sessionVars ==
    <<pc, daemon, earlyExit, logFile, cmdFile, conn, accepted, procWait, account,
      transcript, sent, issued, calls, lastOp, lastResp, rpc, outcome, lastArgs>>

\* __aenter__ of session s up to the sleep: the process is spawned and the
\* connection object is made for 127.0.0.1 and the fixed port
PeerSpawn(s) ==
    /\ sessions[s].pc = "Created"
    /\ sessions' = [sessions EXCEPT ![s].pc = "Settling", ![s].daemon = "starting",
                                    ![s].port = RPC_PORT, ![s].io.conn = "idle"]
    /\ UNCHANGED <<portOwner, sessionVars, loopVars>>

\* the daemon of session s binds the port its controller will connect to;
\* when the daemon of the other session holds it, the bind fails and the
\* daemon exits
PeerListen(s) ==
    /\ sessions[s].daemon = "starting"
    /\ IF portOwner = 0
       THEN /\ portOwner' = s
            /\ sessions' = [sessions EXCEPT ![s].daemon = "listening"]
       ELSE /\ sessions' = [sessions EXCEPT ![s].daemon = "exited"]
            /\ UNCHANGED portOwner
    /\ UNCHANGED <<sessionVars, loopVars>>

PeerDaemonExit(s) ==
    /\ sessions[s].daemon \in {"starting", "listening"}
    /\ sessions' = [sessions EXCEPT ![s].daemon = "exited"]
    /\ portOwner' = IF portOwner = s THEN 0 ELSE portOwner
    /\ UNCHANGED <<sessionVars, loopVars>>

PeerSettle(s) ==
    /\ sessions[s].pc = "Settling"
    /\ sessions' = [sessions EXCEPT ![s].pc = "Ready"]
    /\ UNCHANGED <<portOwner, sessionVars, loopVars>>

\* the session whose daemon a request of session s reaches: the one at the
\* other end of an established connection, else the one bound to the port
\* the connection addresses
Receiver(s) ==
    IF sessions[s].io.conn = "connected" THEN sessions[s].peer
    ELSE IF sessions[s].port = RPC_PORT THEN portOwner
    ELSE 0

\* what _write_command of session s finds at the other end
Reached(s) ==
    IF Receiver(s) # 0 /\ sessions[Receiver(s)].daemon = "listening"
    THEN "listening" ELSE "none"

\* sessions after _write_command of session s ended as r: the controller's
\* own state, and the request in the hands of the daemon that received it
Delivered(s, r) ==
    LET own == [sessions EXCEPT ![s].io = r.io,
                                ![s].peer = IF r.resp.arrived THEN Receiver(s)
                                            ELSE sessions[s].peer]
    IN  IF r.resp.arrived
        THEN [own EXCEPT ![Receiver(s)].received =
                 Append(@, [from |-> s, request |-> r.io.sent[Len(r.io.sent)]])]
        ELSE own

\* new_address on session s
PeerCall(s) ==
    /\ sessions[s].pc = "Ready"
    /\ sessions[s].calls < MaxCalls
    /\ \E resp \in Answers(sessions[s].io.conn, Reached(s)) :
          LET r == WriteCommand(sessions[s].io, Method("new_address"),
                                Params("new_address", AccountParam(sessions[s].account)),
                                Reached(s), resp)
          IN  sessions' = [Delivered(s, r) EXCEPT ![s].calls = @ + 1]
    /\ UNCHANGED <<portOwner, sessionVars, loopVars>>

PeerSelectAccount(s, n) ==
    /\ sessions[s].pc = "Ready"
    /\ sessions' = [sessions EXCEPT ![s].account = n]
    /\ UNCHANGED <<portOwner, sessionVars, loopVars>>

\* __aexit__ of session s up to the await of process.communicate()
PeerExitShutdown(s) ==
    /\ sessions[s].pc = "Ready"
    /\ \E resp \in Answers(sessions[s].io.conn, Reached(s)) :
          LET r == WriteCommand(sessions[s].io, "shutdown", <<>>, Reached(s), resp)
          IN  sessions' = [Delivered(s, r) EXCEPT
                              ![s].pc = IF r.rpc.kind = "raise" THEN "ExitFailed"
                                        ELSE "AwaitExit"]
    /\ UNCHANGED <<portOwner, sessionVars, loopVars>>

\* communicate() of session s returns once its own process has exited
PeerExitFinish(s) ==
    /\ sessions[s].pc = "AwaitExit"
    /\ sessions[s].daemon = "exited"
    /\ sessions' = [sessions EXCEPT ![s].pc = "Terminated", ![s].io.conn = "closed"]
    /\ UNCHANGED <<portOwner, sessionVars, loopVars>>

PeersNext ==
    \/ \E s \in Sessions : PeerSpawn(s)
    \/ \E s \in Sessions : PeerListen(s)
    \/ \E s \in Sessions : PeerDaemonExit(s)
    \/ \E s \in Sessions : PeerSettle(s)
    \/ \E s \in Sessions : PeerCall(s)
    \/ \E s \in Sessions, n \in Accounts : PeerSelectAccount(s, n)
    \/ \E s \in Sessions : PeerExitShutdown(s)
    \/ \E s \in Sessions : PeerExitFinish(s)

SpecPeers == Init /\ [][PeersNext]_vars

\* ------------------------------------- coroutines on one controller
\* Facade coroutines started side by side on a ready controller whose
\* daemon is listening (asyncio.gather or tasks). The event loop runs one
\* coroutine at a time and takes another only where the running one
\* suspends. A coroutine is at "new" before it runs, at "sent" inside
\* getresponse() of its call, at "between" after `await self.new_address()`
\* in new_public_key, at "sent2" inside getresponse() of the second call,
\* and at "done" when it returned or raised.
TaskOps == {"new_address", "new_public_key", "get_best_block_height"}

\* a mutant: a client whose calls are awaited, so that the coroutine
\* suspends wherever it waits
SuspendsWhileWaiting(pos) == pos \in {"sent", "between", "sent2", "done"}

\* whether a coroutine at pos has given the event loop back: _write_command
\* is a plain function that blocks in request() and getresponse(), and the
\* await of new_address() in new_public_key runs it through without
\* suspending, so a coroutine gives the loop back only when it has ended
Suspends(pos) == pos = "done"

\* the method and the parameters of the call a coroutine at pos makes
TaskMethod(op, pos) ==
    IF pos = "between" THEN "address_reveal_public_key"
    ELSE IF op = "new_public_key" THEN Method("new_address")
    ELSE Method(op)
TaskParams(op, pos, addr) ==
    IF pos = "between" THEN <<AccountParam(account), PStr(addr.s)>>
    ELSE IF op = "new_public_key" THEN Params("new_address", AccountParam(account))
    ELSE Params(op, AccountParam(account))

\* _write_command up to request(): the request is written to the transcript
\* and put on the connection; request() raises CannotSendRequest when the
\* response to an earlier request was not read yet
TaskSend(t, op) ==
    /\ pc = "Ready"
    /\ daemon = "listening"
    /\ running \in {0, t}
    /\ tasks[t].pos \in {"new", "between"}
    /\ (tasks[t].pos = "between") => (op = tasks[t].op)
    /\ LET pos == tasks[t].pos
           method == TaskMethod(op, pos)
           params == TaskParams(op, pos, tasks[t].addr)
           after == IF wire # <<>> THEN "done"
                    ELSE IF pos = "between" THEN "sent2" ELSE "sent"
       IN  /\ transcript' = Append(transcript, ReqRecord(method, params))
           /\ issued' = issued + 1
           /\ overlap' = (overlap \/ wire # <<>>)
           /\ IF wire # <<>>
              THEN /\ tasks' = [tasks EXCEPT ![t].pos = after, ![t].op = op,
                                             ![t].out = Exc("CannotSendRequest")]
                   /\ UNCHANGED <<wire, sent, conn, accepted>>
              ELSE /\ tasks' = [tasks EXCEPT ![t].pos = after, ![t].op = op]
                   /\ wire' = Append(wire, [task |-> t, request |-> Request(method, params)])
                   /\ sent' = Append(sent, Request(method, params))
                   /\ conn' = "connected"
                   /\ accepted' = TRUE
           /\ running' = IF Suspends(after) THEN 0 ELSE t
    /\ UNCHANGED <<pc, daemon, earlyExit, logFile, cmdFile, procWait, account, calls,
                   lastOp, lastResp, rpc, outcome, lastArgs, peerVars>>

\* _write_command from getresponse() on, and the rest of the operation: the
\* response to the oldest unanswered request of the connection is read,
\* written and decoded; got records whose request it answered
TaskReceive(t, resp) ==
    /\ running \in {0, t}
    /\ tasks[t].pos \in {"sent", "sent2"}
    /\ wire # <<>>
    /\ LET first == ReadBody(resp.body)
           second == ReadBody(first.rest)
           r == JsonLoads(first.data)
           addr == Finish("new_address", r)
           key == IF r.kind = "raise" THEN Exc(r.exc)
                  ELSE GetResultField(r.doc, "public_key_hex")
           after == IF tasks[t].pos = "sent" /\ tasks[t].op = "new_public_key"
                       /\ addr.kind = "return"
                    THEN "between" ELSE "done"
           out == IF after = "between" THEN NoOutcome
                  ELSE IF tasks[t].pos = "sent2"
                  THEN (IF key.kind = "raise" THEN key ELSE StripTag(key.val))
                  ELSE IF tasks[t].op = "new_public_key" THEN addr
                  ELSE Finish(tasks[t].op, r)
       IN  /\ transcript' = transcript \o Written(second.data)
           /\ wire' = Tail(wire)
           /\ tasks' = [tasks EXCEPT ![t].pos = after,
                                     ![t].got = wire[1].task,
                                     ![t].addr = IF after = "between" THEN addr.val ELSE @,
                                     ![t].out = out]
           /\ running' = IF Suspends(after) THEN 0 ELSE t
    /\ UNCHANGED <<pc, daemon, earlyExit, logFile, cmdFile, conn, accepted, procWait,
                   account, sent, issued, calls, lastOp, lastResp, rpc, outcome, lastArgs,
                   overlap, peerVars>>

\* a controller that was entered and whose daemon is listening
InitLoop ==
    /\ pc = "Ready"
    /\ daemon = "listening"
    /\ earlyExit = FALSE
    /\ logFile = "open"
    /\ cmdFile = "open"
    /\ conn = "idle"
    /\ accepted = FALSE
    /\ procWait = "no"
    /\ account = DEFAULT_ACCOUNT_INDEX
    /\ transcript = <<>>
    /\ sent = <<>>
    /\ issued = 0
    /\ calls = 0
    /\ lastOp = "__aenter__"
    /\ lastResp = NoResponse
    /\ rpc = NoRpc
    /\ outcome = Ret(VStr("self"))
    /\ lastArgs = NoArgs
    /\ sessions = [s \in Sessions |-> NewSession]
    /\ portOwner = 0
    /\ tasks = [t \in Tasks |-> NewTask]
    /\ running = 0
    /\ wire = <<>>
    /\ overlap = FALSE

LoopNext ==
    \/ \E t \in Tasks, op \in TaskOps : TaskSend(t, op)
    \/ \E t \in Tasks, resp \in FewResponses : TaskReceive(t, resp)

SpecLoop == InitLoop /\ [][LoopNext]_vars

\* ------------------------------------------- the token operations
TokenOps ==
    {"issue_new_token", "mint_tokens", "unmint_tokens", "lock_token_supply",
     "freeze_token", "unfreeze_token", "change_token_authority"}

\* the method name each token operation passes to _write_command
TokenMethod(op) ==
    CASE op = "issue_new_token" -> "token_issue_new"
      [] op = "mint_tokens" -> "token_mint"
      [] op = "unmint_tokens" -> "token_mint"
      [] op = "lock_token_supply" -> "token_lock_supply"
      [] op = "freeze_token" -> "token_freeze"
      [] op = "unfreeze_token" -> "token_unfreeze"
      [] op = "change_token_authority" -> "token_change_authority"

\* the positional parameters, with acct = self.account; an amount and
\* number_of_decimals are passed on as the caller gave them
TokenParams(op, acct) ==
    CASE op = "issue_new_token" ->
            <<acct, PStr("token_ticker"), PNum(2), PStr("metadata_uri"),
              PStr("destination_address"), PStr("unlimited"), PStr("freezable"),
              FeePolicy>>
      [] op = "mint_tokens" -> <<acct, PStr("token_id"), PStr("address"), PNum(1), FeePolicy>>
      [] op = "unmint_tokens" -> <<acct, PStr("token_id"), PNum(1), FeePolicy>>
      [] op = "lock_token_supply" -> <<acct, PStr("token_id"), FeePolicy>>
      [] op = "freeze_token" -> <<acct, PStr("token_id"), PStr("is_unfreezable"), FeePolicy>>
      [] op = "unfreeze_token" -> <<acct, PStr("token_id"), FeePolicy>>
      [] op = "change_token_authority" ->
            <<acct, PStr("token_id"), PStr("new_authority"), FeePolicy>>

\* a token operation: one _write_command, and ['result'] of what it returned
TokenCall(op) ==
    /\ pc = "Ready"
    /\ calls < MaxCalls
    /\ \E resp \in FewAnswers(conn, daemon) :
          LET r == WriteCommand(IO, TokenMethod(op),
                                TokenParams(op, AccountParam(account)), daemon, resp)
          IN  /\ transcript' = r.io.transcript
              /\ sent' = r.io.sent
              /\ issued' = r.io.issued
              /\ conn' = r.io.conn
              /\ accepted' = r.io.accepted
              /\ lastResp' = r.resp
              /\ rpc' = r.rpc
              /\ outcome' = IF r.rpc.kind = "raise" THEN Exc(r.rpc.exc)
                            ELSE GetResult(r.rpc.doc)
    /\ calls' = calls + 1
    /\ lastOp' = op
    /\ lastArgs' = NoArgs
    /\ UNCHANGED <<peerVars, loopVars, pc, daemon, earlyExit, logFile, cmdFile, procWait,
                   account>>

TokensNext ==
    \/ EnterSpawn
    \/ EnterSettle
    \/ \E op \in TokenOps : TokenCall(op)
    \/ \E n \in Accounts : SelectAccount(n)
    \/ ExitShutdown
    \/ ExitFinish
    \/ DaemonListen
    \/ DaemonExit

SpecTokens == Init /\ [][TokensNext]_vars

\* The session with the operations that take an amount or a filter.
ArgsNext ==
    \/ EnterSpawn
    \/ EnterSettle
    \/ \E amount \in Amounts : SendToAddress(amount)
    \/ \E amount \in Amounts : SendTokensToAddress(amount)
    \/ \E with_locked \in LockedFilters, utxo_states \in UtxoStates :
          GetBalance(with_locked, utxo_states)
    \/ \E n \in Accounts : SelectAccount(n)
    \/ ExitShutdown
    \/ ExitFinish
    \/ DaemonListen
    \/ DaemonExit

SpecArgs == Init /\ [][ArgsNext]_vars

\* ====================================================== the claims
\* helpers of the formulas below
ReqIndexes == {i \in 1..Len(transcript) : transcript[i].k = "req"}
RespIndexes == {i \in 1..Len(transcript) : transcript[i].k = "resp"}
ShutdownAttempts == Cardinality({i \in ReqIndexes : transcript[i].method = "shutdown"})
LastSent == sent[Len(sent)]
TeardownEnded == pc \in {"Terminated", "ExitFailed"}
\* the last _write_command got a response whose body is a JSON object
GotDocument == lastResp.arrived /\ lastResp.body.wf /\ lastResp.body.doc.obj
\* ... and that object is an error response: an "error" and no "result"
GotErrorResponse ==
    GotDocument /\ lastResp.body.doc.hasError /\ ~lastResp.body.doc.hasResult

\* C1: once teardown (__aexit__) has ended, on whatever path, the shutdown
\* command was attempted exactly once, the process was waited on, and the
\* stderr log, the transcript and the connection are closed.
C1_TeardownReleasesAll ==
    TeardownEnded =>
        /\ ShutdownAttempts = 1
        /\ procWait = "reaped"
        /\ logFile = "closed"
        /\ cmdFile = "closed"
        /\ conn = "closed"

\* C2: a call whose decoded response has an "error" key raises RpcError and
\* returns nothing; a call whose decoded response has a "result" and no
\* "error" returns, and what it returns holds that result.
C2_ErrorKeyRaisesRpcError ==
    (GotDocument /\ lastResp.status = 200) =>
        IF lastResp.body.doc.hasError
        THEN rpc.kind = "raise" /\ rpc.exc = "RpcError"
        ELSE lastResp.body.doc.hasResult =>
                /\ rpc.kind = "return"
                /\ rpc.doc.result = lastResp.body.doc.result

\* C3: a facade operation other than the staking-status mapping whose request
\* the daemon answered with an error response does not return: it raises.
C3_FacadeSurfacesRpcErrors ==
    (lastOp \in FacadeOps \ {"staking_status", "select_account"} /\ GotErrorResponse) =>
        outcome.kind = "raise"

\* C4: after n calls of _write_command, returned or raised, the transcript
\* holds n request records and n response records, each request record
\* followed by its response record.
C4_OneRequestOneResponseRecord ==
    /\ Cardinality(ReqIndexes) = issued
    /\ Cardinality(RespIndexes) = issued
    /\ \A i \in 1..Len(transcript) :
          transcript[i].k = (IF i % 2 = 1 THEN "req" ELSE "resp")

\* C5: the request of an account-scoped facade operation carries
\* {account: N} as its first positional parameter, N the account selected.
AccountScopedOps ==
    FacadeOps \ {"select_account", "create_wallet", "open_wallet", "close_wallet",
                 "get_best_block_height", "create_new_account", "sync"}
C5_AccountIsFirstParameter ==
    (lastOp \in AccountScopedOps /\ lastResp.arrived) =>
        /\ Len(LastSent.params) >= 1
        /\ LastSent.params[1] = AccountParam(account)

\* C6: whenever a call has been issued on the session, the RPC port had
\* accepted a connection of the session.
C6_ReachableBeforeFirstCall == (issued > 0) => accepted

\* C7: when the process exited before the settle interval was over, the
\* acquisition ends failed with an error: the session is never Ready and no
\* call is issued on it.
C7_EarlyExitFailsAcquisition ==
    earlyExit =>
        /\ pc \in {"Settling", "EnterFailed"}
        /\ pc = "EnterFailed" => outcome.kind = "raise"
        /\ issued = 0

\* C8: the wait of teardown for the process is bounded: while __aexit__ waits,
\* the controller itself has a step that ends the wait, whether or not the
\* daemon ever exits.
C8_TeardownWaitIsBounded == (pc = "AwaitExit") => ENABLED ControllerNext

\* C9 (as the claim states it): staking_status returns "Staking" when the
\* reply's result is the string "Staking" and returns "Not staking" for
\* every other reply of the daemon, an error response included.
RepliedStaking ==
    GotDocument /\ lastResp.body.doc.hasResult
    /\ lastResp.body.doc.result = VStr("Staking")
C9_ErrorsMapToNotStaking ==
    (lastOp = "staking_status" /\ GotDocument) =>
        outcome = (IF RepliedStaking THEN Ret(VStr("Staking"))
                   ELSE Ret(VStr("Not staking")))

\* C9 (amended): staking_status returns "Staking" exactly when the reply
\* carries a result that is the string "Staking", returns "Not staking"
\* exactly when the reply carries any other result, and raises in every
\* other case: KeyError on a reply without a result (an error response),
\* TypeError on a reply that is no JSON object, and the exception of the
\* call when the call itself raised.
C9_StakingStatusMapping ==
    (lastOp = "staking_status") =>
        /\ outcome = Ret(VStr("Staking")) <=> RepliedStaking
        /\ outcome = Ret(VStr("Not staking")) <=>
              (GotDocument /\ lastResp.body.doc.hasResult /\ ~RepliedStaking)
        /\ GotErrorResponse => outcome = Exc("KeyError")
        /\ (rpc.kind = "return" /\ ~lastResp.body.doc.obj) => outcome = Exc("TypeError")
        /\ rpc.kind = "raise" => outcome = Exc(rpc.exc)
        /\ outcome.kind \in {"return", "raise"}

\* C9 witness: staking_status ran on an error response and raised KeyError
C9_Witness ==
    /\ lastOp = "staking_status"
    /\ GotErrorResponse
    /\ outcome = Exc("KeyError")

\* C10: a call whose response body is no JSON, or whose HTTP status is
\* outside the success range, raises and returns nothing.
C10_BadStatusOrBodyRaises ==
    (lastResp.arrived /\ (~lastResp.body.wf \/ lastResp.status # 200)) =>
        rpc.kind = "raise"

\* C13: the document a call returns has a "result" exactly when it has no
\* "error": never both keys, never neither.
C13_ResultXorError ==
    (rpc.kind = "return" /\ rpc.doc.obj) =>
        (rpc.doc.hasResult <=> ~rpc.doc.hasError)

\* C17: the response record a call appends to the transcript holds the bytes
\* of the body that the call decoded and returned: after a call that decoded
\* the body it received, the transcript ends with that body.
C17_TranscriptHoldsDecodedBody ==
    (lastResp.arrived /\ rpc.kind = "return") =>
        /\ Len(transcript) > 0
        /\ transcript[Len(transcript)] = RespRecord(lastResp.body)

\* C14: new_public_key returns the revealed key without its first byte and
\* with every other byte unchanged and in order: the result is one byte
\* shorter than the key, byte i of the result is byte i + 1 of the key (the
\* byte the hex digits 2i + 1 and 2i + 2 of the reply spell), and a key of
\* KeyBytes bytes gives KeyBytes - 1 bytes. A revealed key holds at least
\* its tag byte.
C14_FirstByteStripped ==
    (/\ lastOp = "new_public_key"
     /\ outcome.kind = "return"
     /\ Len(lastResp.body.doc.result.b) >= 2) =>
        LET hex == lastResp.body.doc.result.b
            out == outcome.val.b
        IN  /\ outcome.val.t = "bytes"
            /\ 2 * (Len(out) + 1) = Len(hex)
            /\ \A i \in 1..Len(out) : out[i] = 16 * hex[2 * i + 1] + hex[2 * i + 2]
            /\ (Len(hex) = 2 * KeyBytes) => (Len(out) = KeyBytes - 1)

\* a key of KeyBytes bytes was revealed and new_public_key returned
C14_Witness ==
    /\ lastOp = "new_public_key"
    /\ outcome.kind = "return"
    /\ lastResp.body.doc.result.b = TaggedKeyHex
    /\ Len(outcome.val.b) = KeyBytes - 1

\* C18: the events of a session occur in the order Created, Starting, Ready,
\* ShuttingDown, Terminated: no request is issued before the process was
\* spawned and __aenter__ returned; a shutdown request is the last request
\* issued and the last one delivered; the wait on the process begins only
\* after the shutdown request was delivered; the files and the connection
\* are closed only after the wait returned.
C18_LifecycleOrder ==
    /\ (issued > 0) => (daemon # "none" /\ pc \notin {"Created", "Settling", "EnterFailed"})
    /\ \A i \in ReqIndexes :
          (transcript[i].method = "shutdown") => (\A j \in ReqIndexes : j <= i)
    /\ \A i \in 1..Len(sent) : (sent[i].method = "shutdown") => (i = Len(sent))
    /\ (procWait # "no") => (Len(sent) > 0 /\ LastSent.method = "shutdown")
    /\ (logFile = "closed" \/ cmdFile = "closed" \/ conn = "closed") =>
          procWait = "reaped"
    /\ (pc = "Created") => (daemon = "none" /\ logFile = "none" /\ cmdFile = "none")
    /\ (pc = "Ready") => (ShutdownAttempts = 0 /\ procWait = "no")
    /\ (pc = "AwaitExit") => (ShutdownAttempts = 1 /\ procWait = "waiting")
    /\ (pc = "Terminated") => (ShutdownAttempts = 1 /\ daemon = "exited")

\* a session that made a call, then sent shutdown, waited and closed
C18_Witness ==
    /\ pc = "Terminated"
    /\ Len(sent) = 2
    /\ sent[1].method # "shutdown"
    /\ LastSent.method = "shutdown"
    /\ procWait = "reaped"
    /\ conn = "closed"

\* C20: select_account is a pure mutation. On a ready session it can be
\* called with every index; the step sets the account index to the argument,
\* returns the constant "Success", issues and sends no request, and leaves
\* the transcript, the connection, the files and the process as they were.
C20_SelectAccountIsPure ==
    /\ [](pc = "Ready" => \A n \in Accounts : ENABLED SelectAccount(n))
    /\ [][(/\ lastOp' = "select_account"
           /\ (lastOp # "select_account" \/ account' # account
                 \/ outcome' # outcome \/ issued' # issued)) =>
             /\ account' \in Accounts
             /\ outcome' = Ret(VStr("Success"))
             /\ UNCHANGED <<transcript, sent, issued, conn, accepted, daemon, procWait,
                            logFile, cmdFile, pc, lastResp>>]_vars

\* select_account has changed the account after a call was made, and the
\* record of that call is still all the transcript holds
C20_Witness ==
    /\ lastOp = "select_account"
    /\ account # DEFAULT_ACCOUNT_INDEX
    /\ outcome = Ret(VStr("Success"))
    /\ issued = 1
    /\ Len(sent) = 1
    /\ sent[1] = Request("address_new", <<AccountParam(DEFAULT_ACCOUNT_INDEX)>>)

\* the request records a step appends to the transcript
AddedRequests ==
    SelectSeq(SubSeq(transcript', Len(transcript) + 1, Len(transcript')),
              LAMBDA rec : rec.k = "req")

\* C19 as stated: every invocation of a facade operation, new_public_key
\* included, issues exactly one call.
C19_OneCallPerOperation ==
    [][(calls' = calls + 1) => (issued' = issued + 1)]_vars

\* C19 as the code has it: every invocation of a facade operation other than
\* new_public_key issues exactly one call, and new_address appends exactly
\* one address_new request to the transcript; new_public_key issues
\* address_new and then, when that call returned an address,
\* address_reveal_public_key, two calls in all, and only address_new when
\* the first call raised or returned no address.
C19_CallsPerOperation ==
    [][(calls' = calls + 1) =>
          IF lastOp' = "new_public_key"
          THEN \/ /\ issued' = issued + 2
                  /\ Len(AddedRequests) = 2
                  /\ AddedRequests[1].method = "address_new"
                  /\ AddedRequests[2].method = "address_reveal_public_key"
               \/ /\ issued' = issued + 1
                  /\ Len(AddedRequests) = 1
                  /\ AddedRequests[1].method = "address_new"
                  /\ outcome'.kind = "raise"
          ELSE /\ issued' = issued + 1
               /\ Len(AddedRequests) = 1
               /\ AddedRequests[1].method = Method(lastOp')
               /\ (lastOp' = "new_address") => (AddedRequests[1].method = "address_new")]_vars

\* new_public_key has run and issued its two calls
C19_Witness ==
    /\ lastOp = "new_public_key"
    /\ calls = 1
    /\ issued = 2
    /\ Len(transcript) = 2
    /\ transcript[1].method = "address_new"
    /\ transcript[2].method = "address_reveal_public_key"

\* the position of the amount among the parameters of the last request
AmountAt == IF LastSent.method = "address_send" THEN 3 ELSE 4

\* C15: send_to_address and send_tokens_to_address transmit the amount as a
\* decimal string, whatever the caller passed (an int, a float or a string):
\* the amount parameter of the delivered request is a string holding str()
\* of the amount.
C15_AmountSentAsString ==
    (/\ lastOp \in {"send_to_address", "send_tokens_to_address"}
     /\ lastResp.arrived) =>
        /\ LastSent.method \in {"address_send", "token_send"}
        /\ LastSent.params[AmountAt].t = "str"
        /\ LastSent.params[AmountAt].s \in {"1", "1.5", "2"}

\* C16: get_balance transmits the filter capitalized, as the parameter after
\* the account, and its request does not depend on utxo_states: whatever
\* utxo_states is, the delivered request is account_balance with the account
\* and the filter with its first letter in upper case and the others in
\* lower case.
C16_BalanceFilterCapitalized ==
    (lastOp = "get_balance" /\ lastResp.arrived) =>
        LET w == lastArgs.with_locked
            expected == IF w = "unlocked" THEN "Unlocked"
                        ELSE IF w \in {"locked", "LOCKED"} THEN "Locked"
                        ELSE "Any"
        IN  /\ w \in LockedFilters
            /\ LastSent = Request("account_balance",
                                  <<AccountParam(account), PStr(expected)>>)
            /\ transcript[Len(transcript)] =
                  ReqRecord("account_balance", <<AccountParam(account), PStr(expected)>>)

\* get_balance("unlocked", ...) was delivered with utxo_states other than
\* the default, for an account other than the default
C16_Witness ==
    /\ lastOp = "get_balance"
    /\ lastResp.arrived
    /\ lastArgs.with_locked = "unlocked"
    /\ lastArgs.utxo_states # <<"confirmed">>
    /\ account # DEFAULT_ACCOUNT_INDEX
    /\ LastSent.params[2] = PStr("Unlocked")

\* C11: sessions that run side by side share nothing: every request a daemon
\* was handed was sent by the controller of its own session.
C11_RequestsReachOwnDaemon ==
    \A s \in Sessions :
        \A i \in 1..Len(sessions[s].received) : sessions[s].received[i].from = s

\* C12: a controller has at most one call in flight, however its facade
\* coroutines are interleaved: at most one request is on the connection
\* without its response read, no request is attempted while another one is
\* in that state (so none is refused with CannotSendRequest), and every
\* response is read by the coroutine whose request it answers.
C12_OneCallInFlight ==
    /\ Len(wire) <= 1
    /\ Cardinality({t \in Tasks : tasks[t].pos \in {"sent", "sent2"}}) <= 1
    /\ ~overlap
    /\ \A t \in Tasks : tasks[t].got \in {0, t}
    /\ \A t \in Tasks : tasks[t].out.exc # "CannotSendRequest"

\* two coroutines were started on the controller, the second one while the
\* first had made its calls, and each read the responses to its own requests
C12_Witness ==
    /\ tasks[1].pos = "done"
    /\ tasks[2].pos \in {"sent", "sent2"}
    /\ tasks[1].op = "new_public_key"
    /\ tasks[1].out.kind = "return"
    /\ tasks[1].got = 1
    /\ Len(sent) = 3
    /\ Len(wire) = 1

\* C21: every token operation sends its own RPC method, with the account
\* first and the fee policy last among its parameters: the method of a
\* delivered request is the method of no other token operation, so the
\* request of unmint_tokens differs by method name from that of mint_tokens.
C21_TokenOpsSendOwnMethod ==
    (lastOp \in TokenOps /\ lastResp.arrived) =>
        /\ \A other \in TokenOps \ {lastOp} : LastSent.method # TokenMethod(other)
        /\ LastSent.params[1] = AccountParam(account)
        /\ LastSent.params[Len(LastSent.params)] = FeePolicy

\* C22: the account index is DEFAULT_ACCOUNT_INDEX from construction until
\* the first select_account, and only select_account changes it: a step
\* that changes the index is a select_account step, which issues no call;
\* every other operation and every call, returning or raising, and
\* __aenter__ and __aexit__ leave it as it was.
C22_OnlySelectAccountChangesAccount ==
    /\ [](lastOp \in {"__init__", "__aenter__"} => account = DEFAULT_ACCOUNT_INDEX)
    /\ [][(account' # account) =>
             (lastOp' = "select_account" /\ issued' = issued /\ calls' = calls)]_vars
    /\ [][(issued' # issued) => (account' = account)]_vars

\* after select_account chose another account, a call was made and raised,
\* and the index is still the chosen one
C22_Witness ==
    /\ lastOp \in SimpleOps \cup {"new_public_key"}
    /\ outcome.kind = "raise"
    /\ issued > 0
    /\ account # DEFAULT_ACCOUNT_INDEX

====
